---- MODULE Spec2Model ----
(***************************************************************************)
(* Model of the TeamContext frontend's authenticated API client            *)
(* (frontend/src/lib/api.ts) and session store                             *)
(* (frontend/src/contexts/AuthContext.tsx).                                *)
(*                                                                         *)
(* The browser runs one task at a time: an action below is one task, i.e.  *)
(* the code that runs from an event (a user action, an HTTP answer) up to  *)
(* the next await of every promise chain the event resumes.                *)
(***************************************************************************)
EXTENDS Integers, Sequences, FiniteSets, TLC

\* ------------------------------------------------------------------ bounds
\* axios calls (request configs) created within one page load
MaxCalls == 3
\* functions of the session store / the pages invoked within one page load
\* (the hydration on mount not counted)
MaxOps == 2
\* axios calls created within one page load when the pages drive the session
MaxPageCalls == 4
\* links the user follows and forms the user submits
MaxInputs == 1
\* axios calls created within one page load when two data loads run together
MaxLoadCalls == 5
\* chunks in a search result, and ids in the tag list of a chunk
MaxChunks == 2
MaxTags == 2

\* ------------------------------------------------------------ value domains
Null == "null"                 \* localStorage.getItem miss
Undef == "undefined"           \* a field that is not set on a JS object
NoUser == [none |-> TRUE]      \* user === null
NoHeader == <<>>               \* no Authorization header on the config
LoginPage == "/login"

AccessTokens == {"a1"}          \* tokens the backend issues during this page load
RefreshTokens == {"r1"}
OldAccess == "a0"              \* tokens cached by an earlier page load
OldRefresh == "r0"
Details == {"", "d1"}          \* response.data.detail ("" when absent)
Emails == {"e1"}               \* what the user types into the form
Pages == {"/dashboard", LoginPage}

\* UserResponse objects the backend can answer with (types/auth)
BackendUsers ==
    { [id |-> "u1", email |-> "e2", name |-> "n1", api_key |-> "k1", created_at |-> "t1"] }

NoAnswer == [status |-> -1, access |-> "", refresh |-> "", user |-> NoUser, detail |-> ""]

\* 2xx answers carrying a TokenResponse; a token may be the empty string
TokenAnswers ==
    { [status |-> 200, access |-> a, refresh |-> r, user |-> NoUser, detail |-> ""] :
        a \in AccessTokens \cup {""}, r \in RefreshTokens \cup {""} }

\* 2xx answers carrying a UserResponse
UserAnswers ==
    { [status |-> 200, access |-> "", refresh |-> "", user |-> u, detail |-> ""] :
        u \in BackendUsers }

\* 2xx answers whose body the client does not read
PlainAnswers == { [status |-> 200, access |-> "", refresh |-> "", user |-> NoUser, detail |-> ""] }

\* failures: 401, another error status (500), or no response at all (status 0).
\* The detail of an error body is read by login and register only, so it is
\* varied on their endpoints only.
ErrorAnswers(ep) ==
    { [status |-> s, access |-> "", refresh |-> "", user |-> NoUser, detail |-> d] :
        s \in {401, 500}, d \in IF ep \in {"login", "register"} THEN Details ELSE {""} }
    \cup { [status |-> 0, access |-> "", refresh |-> "", user |-> NoUser, detail |-> ""] }

\* what the backend can answer on an endpoint
Answers(ep) ==
    (CASE ep \in {"login", "refresh"} -> TokenAnswers
       [] ep \in {"me", "register"}   -> UserAnswers
       [] OTHER                       -> PlainAnswers)
    \cup ErrorAnswers(ep)

\* ------------------------------------------------------------------- state
VARIABLES
    storage,    \* localStorage: user, access_token, refresh_token
    user,       \* AuthProvider state: user
    loading,    \* AuthProvider state: loading
    href,       \* window.location.href
    calls,      \* the axios calls of this page load, in creation order
    ops,        \* position of each async function of the pages / the provider
    last,       \* what the last task did
    spent,      \* calls made and functions called in earlier page loads
    page,       \* the page component that is mounted, and its local state
    graph       \* the state of the KnowledgeGraph component

vars == <<storage, user, loading, href, calls, ops, last, spent, page, graph>>

OpNames == {"checkAuth", "login", "register", "logout", "fetch1", "fetch2"}
Final == {"returned", "threw"}

\* the User object of types/auth; apiKey and created_at are optional
MkUser(id, email, name, apiKey, created) ==
    [id |-> id, email |-> email, name |-> name, apiKey |-> apiKey, created_at |-> created]

UserKeys == {"id", "email", "name", "apiKey", "created_at"}

\* JSON.parse(JSON.stringify(u)): properties whose value is undefined are dropped
Stringify(u) == [k \in {f \in UserKeys : u[f] # Undef} |-> u[k]]

\* `Bearer ${token}`
Bearer(t) == <<"Bearer", t>>

\* values localStorage can hold under 'user' when the application starts:
\* a profile cached by an earlier page load
StoredUsers == { Stringify(MkUser("u0", "e0", "n0", Undef, "t0")) }

OpIdle(o) == [pc |-> IF o = "checkAuth" THEN "init" ELSE "idle",
              email |-> "", apiKey |-> "", reg |-> NoUser, out |-> "", c0 |-> 0, c |-> 0]

\* the routes of the application (app/*/page.tsx); p1 is a project id
Routes == {"/dashboard", "/projects", "/projects/p1", "/analytics", "/api-access", LoginPage}

\* the pages whose effect tests the session: dashboard, project list,
\* project detail, analytics
Guarded == {"/dashboard", "/projects", "/projects/p1", "/analytics"}

\* no fetch() of the page is in flight
NoFetch == [st |-> "none", ep |-> "", auth |-> NoHeader]

\* the formData / isLogin state of the login page before anything is typed
NoForm == [isLogin |-> TRUE, name |-> <<>>, email |-> "", password |-> <<>>,
           confirmPassword |-> <<>>]

\* the useState initial values of the page component of route r: its loading
\* flag (loadingProjects, loadingGraphs, loading, rotating), its data, its
\* error message; nav is the route a router.push is navigating to, loader the
\* function the component awaits, raw its fetch() in flight, inputs the
\* number of links the user followed and forms the user submitted so far
Mount(r, n) ==
    [route |-> r, nav |-> "", busy |-> r \in Guarded, data |-> FALSE, error |-> "",
     loader |-> "none", raw |-> NoFetch, inputs |-> n]

NoLast == [act |-> "start", c |-> 0, ans |-> NoAnswer, wasRetry |-> FALSE,
           sent |-> 0, done |-> "none", form |-> NoForm, hadKey |-> FALSE]

\* the useState initial values of the KnowledgeGraph component; data is the
\* search result its graph was built from
NoGraph == [data |-> <<>>, nodes |-> <<>>, links |-> <<>>, loading |-> TRUE, error |-> ""]

\* the application starts on one of the routes in rs
Start(rs) ==
    /\ storage \in [user : {NoUser} \cup StoredUsers,
                    access_token : {Null, OldAccess},
                    refresh_token : {Null, OldRefresh}]
    /\ user = NoUser
    /\ loading = TRUE
    /\ href \in rs
    /\ calls = <<>>
    /\ ops = [o \in OpNames |-> OpIdle(o)]
    /\ last = NoLast
    /\ spent = [calls |-> 0, ops |-> 0]
    /\ page = Mount(href, 0)
    /\ graph = NoGraph

Init == Start(Pages)

\* the state the handlers read and write, as one value
World == [storage |-> storage, user |-> user, loading |-> loading,
          href |-> href, calls |-> calls, ops |-> ops, page |-> page]

\* ---------------------------------------------------------- the API client
\* api.interceptors.request.use: the bearer header is attached only when a
\* 'user' entry is cached (and parses) and an access token is cached
RequestInterceptor(st, auth) ==
    IF st.user # NoUser /\ st.access_token # Null
    THEN Bearer(st.access_token)
    ELSE auth

\* the config of a new call. data is the request body: the values of the form
\* for login and register, nothing for the calls made with a url only
\* (api.get(url), api.post(url)), the refresh call among them
NewCall(ep, auth, parent, owner) ==
    [ep |-> ep, retry |-> FALSE, auth |-> auth, parent |-> parent, owner |-> owner,
     data |-> IF ep \in {"login", "register"} THEN "form" ELSE Undef,
     st |-> "inflight", sends |-> 1, n401 |-> 0, res |-> NoAnswer]

\* api.get / api.post for a new config: request interceptor, then the HTTP send
Send(w, ep, parent, owner) ==
    [w EXCEPT !.calls = Append(@, NewCall(ep, RequestInterceptor(w.storage, NoHeader),
                                          parent, owner))]

\* api(originalRequest): the same config goes through the request interceptor
\* again and is sent a second time
Resend(w, c) ==
    [w EXCEPT !.calls[c].st = "inflight",
              !.calls[c].sends = @ + 1,
              !.calls[c].auth = RequestInterceptor(w.storage, @)]

\* localStorage.setItem('access_token' / 'refresh_token') under the truthiness guards
StoreTokens(st, ans) ==
    [st EXCEPT !.access_token = IF ans.access # "" THEN ans.access ELSE @,
               !.refresh_token = IF ans.refresh # "" THEN ans.refresh ELSE @]

\* the three localStorage.removeItem calls
ClearStorage(st) == [user |-> NoUser, access_token |-> Null, refresh_token |-> Null]

\* variant: the retry goes out without the refreshed tokens being stored or
\* put on the original config
RefreshSucceeded_StaleTokens(w, p, ans) == Resend(w, p)

\* the response interceptor after `await api.post('/auth/refresh')` resolved:
\* store the new tokens, set the header on the original config, retry it
RefreshSucceeded(w, p, ans) ==
    Resend([w EXCEPT !.storage = StoreTokens(@, ans),
                     !.calls[p].auth = Bearer(ans.access)], p)

\* the catch block of the response interceptor
RefreshFailed(w) ==
    [w EXCEPT !.storage = ClearStorage(@), !.href = LoginPage]

\* error.response?.data?.detail ("" when there is no response or no detail)
Detail(ans) == IF ans.status = 0 THEN "" ELSE ans.detail

\* AxiosError.message
Message(ans) ==
    CASE ans.status = 0   -> "Network Error"
      [] ans.status = 401 -> "Request failed with status code 401"
      [] OTHER            -> "Request failed with status code 500"

\* -------------------------------------------------------- the session store
\* the User built from a UserResponse by checkAuth and login
ProfileOf(info) == MkUser(info.id, info.email, info.name, Undef, info.created_at)

\* the User built by login when the profile fetch fails
PartialProfile(email) == MkUser("", email, "", Undef, Undef)

\* the User built by register, carrying the API key
RegisteredProfile(resp, apiKey) == MkUser(resp.id, resp.email, resp.name, apiKey, resp.created_at)

\* localStorage.setItem('user', JSON.stringify(u)); setUser(u)
SetSession(w, u) == [w EXCEPT !.storage.user = Stringify(u), !.user = u]

Return(w, o, v) == [w EXCEPT !.ops[o].pc = "returned", !.ops[o].out = v]
Throw(w, o, m)  == [w EXCEPT !.ops[o].pc = "threw", !.ops[o].out = m]

\* authAPI.X(): send the call and suspend the function at its await
Await(w, o, ep, pc) ==
    LET w1 == Send(w, ep, 0, o)
    IN  [w1 EXCEPT !.ops[o].pc = pc, !.ops[o].c = Len(w1.calls),
                   !.ops[o].c0 = IF @ = 0 THEN Len(w1.calls) ELSE @]

\* variant: the validated profile takes over the API key of the cached one
CheckAuthResume_KeepApiKey(w, ok, ans) ==
    LET old == w.storage.user
        key == IF "apiKey" \in DOMAIN old THEN old.apiKey ELSE Undef
        w1  == IF ok
               THEN SetSession(w, [ProfileOf(ans.user) EXCEPT !.apiKey = key])
               ELSE [w EXCEPT !.storage.user = NoUser, !.user = NoUser]
    IN  Return([w1 EXCEPT !.loading = FALSE], "checkAuth", "")

\* variant: setLoading(false) at the end of the try block, not in finally
CheckAuthResume_LoadingOnFailure(w, ok, ans) ==
    IF ok
    THEN Return([SetSession(w, ProfileOf(ans.user)) EXCEPT !.loading = FALSE], "checkAuth", "")
    ELSE Return([w EXCEPT !.storage.user = NoUser, !.user = NoUser], "checkAuth", "")

\* variant: a successful validation keeps the profile that was cached
CheckAuthResume_KeepCached(w, ok, ans) ==
    LET w1 == IF ok
              THEN [w EXCEPT !.user = w.storage.user]
              ELSE [w EXCEPT !.storage.user = NoUser, !.user = NoUser]
    IN  Return([w1 EXCEPT !.loading = FALSE], "checkAuth", "")

\* checkAuth after `await authAPI.getCurrentUser()`
CheckAuthResume(w, ok, ans) ==
    LET w1 == IF ok
              THEN SetSession(w, ProfileOf(ans.user))
              ELSE [w EXCEPT !.storage.user = NoUser, !.user = NoUser]
    IN  Return([w1 EXCEPT !.loading = FALSE], "checkAuth", "")

\* variant: the rejection detail is not read
LoginAfterLogin_GenericMessage(w, ok, ans) ==
    IF ok
    THEN Await([w EXCEPT !.storage = StoreTokens(@, ans)], "login", "me", "awaitMe")
    ELSE Throw(w, "login", "Login failed")

\* login after `await authAPI.login(...)`
LoginAfterLogin(w, ok, ans) ==
    IF ok
    THEN Await([w EXCEPT !.storage = StoreTokens(@, ans)], "login", "me", "awaitMe")
    ELSE Throw(w, "login", IF Detail(ans) # "" THEN Detail(ans) ELSE "Login failed")

\* variant: a failed profile fetch falls into the outer catch
LoginAfterMe_Rethrow(w, ok, ans) ==
    IF ok
    THEN Return(SetSession(w, ProfileOf(ans.user)), "login", "")
    ELSE Throw(w, "login", IF Detail(ans) # "" THEN Detail(ans) ELSE "Login failed")

\* login after `await authAPI.getCurrentUser()`
LoginAfterMe(w, ok, ans) ==
    Return(SetSession(w, IF ok THEN ProfileOf(ans.user)
                               ELSE PartialProfile(w.ops["login"].email)),
           "login", "")

\* register after `await authAPI.register(...)`
RegisterAfterRegister(w, ok, ans) ==
    IF ok
    THEN Await([w EXCEPT !.ops["register"].apiKey = ans.user.api_key,
                         !.ops["register"].reg = ans.user],
               "register", "login", "awaitLogin")
    ELSE Throw(w, "register",
               IF Detail(ans) # "" THEN Detail(ans) ELSE Message(ans))

\* variant: the cached profile is built without the API key
RegisterAfterLogin_NoApiKey(w, ok, ans) ==
    LET w1 == IF ok THEN [w EXCEPT !.storage = StoreTokens(@, ans)] ELSE w
    IN  Return(SetSession(w1, ProfileOf(w.ops["register"].reg)),
               "register", w.ops["register"].apiKey)

\* variant: a failed automatic login falls into the outer catch
RegisterAfterLogin_Rethrow(w, ok, ans) ==
    IF ok
    THEN Return(SetSession([w EXCEPT !.storage = StoreTokens(@, ans)],
                           RegisteredProfile(w.ops["register"].reg, w.ops["register"].apiKey)),
                "register", w.ops["register"].apiKey)
    ELSE Throw(w, "register", IF Detail(ans) # "" THEN Detail(ans) ELSE Message(ans))

\* register after `await authAPI.login(...)`: both branches cache the user
RegisterAfterLogin(w, ok, ans) ==
    LET w1 == IF ok THEN [w EXCEPT !.storage = StoreTokens(@, ans)] ELSE w
    IN  Return(SetSession(w1, RegisteredProfile(w.ops["register"].reg, w.ops["register"].apiKey)),
               "register", w.ops["register"].apiKey)

\* variant: the cache is cleared in the try block instead of the finally block
LogoutResume_ClearOnSuccess(w, ok, ans) ==
    Return(IF ok THEN [w EXCEPT !.storage = ClearStorage(@), !.user = NoUser] ELSE w,
           "logout", "")

\* logout after `await authAPI.logout()`: catch logs, finally clears
LogoutResume(w, ok, ans) ==
    Return([w EXCEPT !.storage = ClearStorage(@), !.user = NoUser], "logout", "")

\* projectAPI.getProjects after `await api.get(...)`
FetchResume(w, o, ok, ans) ==
    IF ok THEN Return(w, o, "data") ELSE Throw(w, o, Message(ans))

\* the code awaiting a top-level call continues with its outcome
OpContinue(w, o, ok, ans) ==
    LET pc == w.ops[o].pc IN
    CASE o = "checkAuth"                       -> CheckAuthResume(w, ok, ans)
      [] o = "login" /\ pc = "awaitLogin"      -> LoginAfterLogin(w, ok, ans)
      [] o = "login" /\ pc = "awaitMe"         -> LoginAfterMe(w, ok, ans)
      [] o = "register" /\ pc = "awaitRegister" -> RegisterAfterRegister(w, ok, ans)
      [] o = "register" /\ pc = "awaitLogin"   -> RegisterAfterLogin(w, ok, ans)
      [] o = "logout"                          -> LogoutResume(w, ok, ans)
      [] OTHER                                 -> FetchResume(w, o, ok, ans)

\* a call settles: its promise resolves (ok) or rejects with the error `ans`.
\* A refresh call settles into the response interceptor that awaits it; a
\* top-level call settles into the function that awaits it.
RECURSIVE Settle(_, _, _, _)
Settle(w, c, ok, ans) ==
    LET w1 == [w EXCEPT !.calls[c].st = IF ok THEN "resolved" ELSE "rejected",
                        !.calls[c].res = ans]
        p  == w.calls[c].parent
    IN  IF p # 0
        THEN IF ok
             THEN RefreshSucceeded(w1, p, ans)
             ELSE \* catch, then `return Promise.reject(error)` with p's own error
                  Settle(RefreshFailed(w1), p, FALSE, w1.calls[p].res)
        ELSE OpContinue(w1, w.calls[c].owner, ok, ans)

\* variant: a 401 that arrives while a refresh call is in flight waits for
\* that call instead of making its own
Receive_SharedRefresh(w, c, ans) ==
    IF ans.status = 200
    THEN Settle(w, c, TRUE, ans)
    ELSE LET w1 == [w EXCEPT !.calls[c].n401 = IF ans.status = 401 THEN @ + 1 ELSE @]
             w2 == [w1 EXCEPT !.calls[c].retry = TRUE,
                              !.calls[c].st = "refreshing",
                              !.calls[c].res = ans]
         IN  IF ans.status = 401 /\ ~w.calls[c].retry
             THEN IF \E k \in 1..Len(w.calls) :
                       w.calls[k].ep = "refresh" /\ w.calls[k].st = "inflight"
                  THEN w2
                  ELSE Send(w2, "refresh", c, "none")
             ELSE Settle(w1, c, FALSE, ans)

\* variant: every failure, not only a 401, starts the refresh
Receive_RefreshOnAnyError(w, c, ans) ==
    IF ans.status = 200
    THEN Settle(w, c, TRUE, ans)
    ELSE LET w1 == [w EXCEPT !.calls[c].n401 = IF ans.status = 401 THEN @ + 1 ELSE @]
         IN  IF ~w.calls[c].retry
             THEN Send([w1 EXCEPT !.calls[c].retry = TRUE,
                                  !.calls[c].st = "refreshing",
                                  !.calls[c].res = ans],
                       "refresh", c, "none")
             ELSE Settle(w1, c, FALSE, ans)

\* variant: the handler does not test the _retry flag
Receive_NoRetryGuard(w, c, ans) ==
    IF ans.status = 200
    THEN Settle(w, c, TRUE, ans)
    ELSE LET w1 == [w EXCEPT !.calls[c].n401 = IF ans.status = 401 THEN @ + 1 ELSE @]
         IN  IF ans.status = 401
             THEN Send([w1 EXCEPT !.calls[c].retry = TRUE,
                                  !.calls[c].st = "refreshing",
                                  !.calls[c].res = ans],
                       "refresh", c, "none")
             ELSE Settle(w1, c, FALSE, ans)

\* api.interceptors.response.use: the HTTP answer `ans` to call c arrives
Receive(w, c, ans) ==
    IF ans.status = 200
    THEN Settle(w, c, TRUE, ans)
    ELSE LET w1 == [w EXCEPT !.calls[c].n401 = IF ans.status = 401 THEN @ + 1 ELSE @]
         IN  IF ans.status = 401 /\ ~w.calls[c].retry
             THEN Send([w1 EXCEPT !.calls[c].retry = TRUE,
                                  !.calls[c].st = "refreshing",
                                  !.calls[c].res = ans],
                       "refresh", c, "none")
             ELSE Settle(w1, c, FALSE, ans)

\* the function that finished (returned or threw) in the step from o1 to o2
DoneOp(o1, o2) ==
    LET d == {o \in OpNames : o2[o].pc \in Final /\ o1[o].pc \notin Final}
    IN  IF d = {} THEN "none" ELSE CHOOSE o \in d : TRUE

\* ------------------------------------------------------------------- pages
\* APP_CONFIG.validation
minNameLength == 2
minPasswordLength == 6

\* String.prototype.trim on a string given as the sequence of its characters
RECURSIVE TrimStart(_)
TrimStart(s) == IF s # <<>> /\ Head(s) = " " THEN TrimStart(Tail(s)) ELSE s

RECURSIVE TrimEnd(_)
TrimEnd(s) == IF s # <<>> /\ s[Len(s)] = " " THEN TrimEnd(SubSeq(s, 1, Len(s) - 1)) ELSE s

Trim(s) == TrimEnd(TrimStart(s))

\* variant: the password length is not tested
ValidateForm_NoLengthCheck(f) ==
    IF ~f.isLogin /\ Trim(f.name) = <<>> THEN "Name is required"
    ELSE IF ~f.isLogin /\ Len(Trim(f.name)) < minNameLength
         THEN "Name must be at least 2 characters"
    ELSE IF ~f.isLogin /\ f.password # f.confirmPassword THEN "Passwords do not match"
    ELSE IF f.email = "" THEN "Email is required"
    ELSE IF f.password = <<>> THEN "Password is required"
    ELSE ""

\* validateForm of the login page: the message it puts in the error state,
\* "" when it returns true
ValidateForm(f) ==
    IF ~f.isLogin /\ Trim(f.name) = <<>> THEN "Name is required"
    ELSE IF ~f.isLogin /\ Len(Trim(f.name)) < minNameLength
         THEN "Name must be at least 2 characters"
    ELSE IF ~f.isLogin /\ f.password # f.confirmPassword THEN "Passwords do not match"
    ELSE IF f.email = "" THEN "Email is required"
    ELSE IF f.password = <<>> THEN "Password is required"
    ELSE IF Len(f.password) < minPasswordLength
         THEN "Password must be at least 6 characters"
    ELSE ""

\* router.push(r): the navigation is started; the page that is mounted stays
\* until the navigation is committed
RouterPush(w, r) == [w EXCEPT !.page.nav = r]

\* what the page component returns from its render
View(w) ==
    LET p == w.page
        isAuthenticated == w.user # NoUser
    IN  CASE p.route = "/dashboard" ->
               IF w.loading THEN "loading"
               ELSE IF ~isAuthenticated THEN "nothing" ELSE "content"
          [] p.route = "/analytics" ->
               IF w.loading \/ p.busy THEN "loading"
               ELSE IF ~isAuthenticated THEN "nothing" ELSE "content"
          [] p.route = "/projects/p1" ->
               IF w.loading \/ p.busy THEN "loading"
               ELSE IF ~p.data THEN "notfound" ELSE "content"
          [] p.route = "/projects" ->
               IF p.busy THEN "loading" ELSE "content"
          [] p.route = "/api-access" -> "content"
          [] OTHER -> "form"

\* the function slot a data load of the page runs in
LoadSlot(w) ==
    IF w.ops["fetch1"].pc = "idle" THEN "fetch1"
    ELSE IF w.ops["fetch2"].pc = "idle" THEN "fetch2" ELSE "stuck"

\* loadProjects / loadProject up to `await projectAPI.getProjects()`
LoadData(w) ==
    LET o == LoadSlot(w)
    IN  IF o = "stuck"
        THEN [w EXCEPT !.page.loader = "stuck"]
        ELSE Await([w EXCEPT !.page.busy = TRUE,
                             !.page.error = IF w.page.route = "/projects/p1" THEN "" ELSE @,
                             !.page.loader = o],
                   o, "data", "awaitData")

\* fetchGraphs of the analytics page up to `await fetch(...)`
FetchGraphs(w) ==
    [w EXCEPT !.page.busy = TRUE, !.page.error = "",
              !.page.raw = [st |-> "sent", ep |-> "graphs",
                            auth |-> Bearer(w.storage.access_token)]]

\* the useEffect on [isAuthenticated, authLoading, router] of a guarded page
SessionEffect(w) ==
    IF w.page.route \notin Guarded \/ w.loading THEN w
    ELSE IF w.user = NoUser THEN RouterPush(w, LoginPage)
    ELSE IF w.page.route = "/analytics" THEN FetchGraphs(w)
    ELSE LoadData(w)

\* loadProjects / loadProject after the await: the dashboard logs a failure,
\* the project pages put a message in their error state
LoadDone(w, o) ==
    LET ok  == w.ops[o].pc = "returned"
        msg == CASE w.page.route = "/projects"    -> "Failed to load projects"
                 [] w.page.route = "/projects/p1" -> "Failed to load project"
                 [] OTHER                         -> ""
    IN  [w EXCEPT !.page.busy = FALSE,
                  !.page.data = IF ok THEN TRUE ELSE @,
                  !.page.error = IF ok \/ msg = "" THEN @ ELSE msg,
                  !.page.loader = "none"]

\* handleSubmit after `await login(...)` / `await register(...)`; the
\* redirect timer of a successful login is not tied to the component
SubmitDone(w, o) ==
    LET ok == w.ops[o].pc = "returned"
        w1 == IF w.page.loader = o
              THEN [w EXCEPT !.page.busy = FALSE, !.page.loader = "none",
                             !.page.error = IF ok THEN @ ELSE w.ops[o].out]
              ELSE w
    IN  IF ok /\ o = "login" THEN RouterPush(w1, "/dashboard") ELSE w1

\* handleLogout after `await logout()`
LogoutDone(w) == RouterPush(w, LoginPage)

\* the page code awaiting function d continues
PageContinue(w, d) ==
    CASE d \in {"fetch1", "fetch2"}  -> IF w.page.loader = d THEN LoadDone(w, d) ELSE w
      [] d \in {"login", "register"} -> SubmitDone(w, d)
      [] d = "logout"                -> LogoutDone(w)
      [] OTHER                       -> w

\* the rest of a task that took the state from old to w: the page code
\* awaiting a function that finished continues, React renders, and the
\* session effect runs if one of its dependencies changed
AfterTask(old, w) ==
    LET w1 == PageContinue(w, DoneOp(old.ops, w.ops))
    IN  IF old.loading # w1.loading \/ (old.user = NoUser) # (w1.user = NoUser)
        THEN SessionEffect(w1)
        ELSE w1

\* fetchGraphs / handleRotateKey after `await fetch(...)` answered with status s
\* (0: fetch rejected)
RawDone(w, s) ==
    LET ok  == s = 200
        msg == IF w.page.raw.ep = "graphs"
               THEN "Failed to load analytics. Please try again."
               ELSE IF s = 0 THEN "Failed to fetch" ELSE "Failed to rotate API key"
    IN  [w EXCEPT !.page.busy = FALSE,
                  !.page.data = IF ok THEN TRUE ELSE @,
                  !.page.error = IF ok THEN @ ELSE msg,
                  !.page.raw = NoFetch]

\* --------------------------------------------------------- knowledge graph
\* the sequences over S of length at most n
SeqsUpTo(S, n) == UNION {[1..k -> S] : k \in 0..n}

\* ids of chunks; "x" is the id of a chunk the search did not return
ChunkIds == {"c1", "c2"}
TagIds == ChunkIds \cup {"x"}

\* an item of the search result, with or without metadata.tags
Chunks == [id : ChunkIds, tags : SeqsUpTo(TagIds, MaxTags)] \cup [id : ChunkIds]

\* what POST /context/search can answer
SearchResults == SeqsUpTo(Chunks, MaxChunks)

\* the node built from an item: `tags: item.metadata?.tags || []` (content,
\* name and position do not enter the links)
NodeOf(item) ==
    [id |-> item.id, tags |-> IF "tags" \in DOMAIN item THEN item.tags ELSE <<>>]

\* data.map(...)
GraphNodes(data) == [i \in 1..Len(data) |-> NodeOf(data[i])]

\* variant: the link is added without looking for the target node
LinksOfTags_NoTargetCheck(nodes, node, tags) ==
    [i \in 1..Len(tags) |-> [source |-> node.id, target |-> tags[i]]]

\* node.tags.forEach: a link is pushed for every tag that is the id of a node
RECURSIVE LinksOfTags(_, _, _)
LinksOfTags(nodes, node, tags) ==
    IF tags = <<>> THEN <<>>
    ELSE (IF \E i \in 1..Len(nodes) : nodes[i].id = Head(tags)
          THEN <<[source |-> node.id, target |-> Head(tags)]>>
          ELSE <<>>)
         \o LinksOfTags(nodes, node, Tail(tags))

\* nodes.forEach, from node i on
RECURSIVE GraphLinks(_, _)
GraphLinks(nodes, i) ==
    IF i > Len(nodes) THEN <<>>
    ELSE LinksOfTags(nodes, nodes[i], nodes[i].tags) \o GraphLinks(nodes, i + 1)

\* ----------------------------------------------------------------- actions
\* the call whose HTTP request was sent in the step from c1 to c2 (0: none)
SentCall(c1, c2) ==
    IF Len(c2) > Len(c1) THEN Len(c2)
    ELSE LET r == {k \in 1..Len(c1) : c2[k].sends > c1[k].sends}
         IN  IF r = {} THEN 0 ELSE CHOOSE k \in r : TRUE

\* the task ends: the state the handlers produced is the next state
Commit(w, act, c, ans, form) ==
    /\ spent' = spent
    /\ graph' = graph
    /\ page' = w.page
    /\ storage' = w.storage
    /\ user' = w.user
    /\ loading' = w.loading
    /\ href' = w.href
    /\ calls' = w.calls
    /\ ops' = w.ops
    /\ last' = [act |-> act, c |-> c, ans |-> ans,
                wasRetry |-> IF c = 0 THEN FALSE ELSE calls[c].retry,
                sent |-> SentCall(calls, w.calls),
                done |-> DoneOp(ops, w.ops),
                form |-> form,
                hadKey |-> storage.user # NoUser /\ "apiKey" \in DOMAIN storage.user]

Apply(w, act, c, ans) ==
    /\ spent.calls + Len(w.calls) <= MaxCalls
    /\ Commit(w, act, c, ans, NoForm)

\* useEffect on mount: checkAuth up to its await (or to its end)
CheckAuth ==
    /\ ops["checkAuth"].pc = "init"
    /\ Apply(IF storage.user # NoUser
             THEN Await(World, "checkAuth", "me", "awaitMe")
             ELSE Return([World EXCEPT !.loading = FALSE], "checkAuth", ""),
             "checkAuth", 0, NoAnswer)

Mounted == ops["checkAuth"].pc # "init"
Invoked == {o \in OpNames \ {"checkAuth"} : ops[o].pc # "idle"}
Callable(o) == ops[o].pc = "idle" /\ spent.ops + Cardinality(Invoked) < MaxOps

\* login(email, password) up to `await authAPI.login(...)`
Login ==
    /\ Mounted /\ Callable("login")
    /\ \E e \in Emails :
         Apply(Await([World EXCEPT !.ops["login"] = [OpIdle("login") EXCEPT !.email = e]],
                     "login", "login", "awaitLogin"),
               "login", 0, NoAnswer)

\* register(name, email, password) up to `await authAPI.register(...)`
Register ==
    /\ Mounted /\ Callable("register")
    /\ \E e \in Emails :
         Apply(Await([World EXCEPT !.ops["register"] = [OpIdle("register") EXCEPT !.email = e]],
                     "register", "register", "awaitRegister"),
               "register", 0, NoAnswer)

\* logout() up to `await authAPI.logout()`
Logout ==
    /\ Mounted /\ Callable("logout")
    /\ Apply(Await([World EXCEPT !.ops["logout"] = OpIdle("logout")],
                   "logout", "logout", "awaitLogout"),
             "logout", 0, NoAnswer)

\* a protected page loads its data once hydration finished with a user
Fetch ==
    /\ ~loading /\ user # NoUser
    /\ \E o \in {"fetch1", "fetch2"} :
         /\ Callable(o)
         /\ (o = "fetch2" => ops["fetch1"].pc # "idle")
         /\ Apply(Await([World EXCEPT !.ops[o] = OpIdle(o)], o, "data", "awaitData"),
                  "fetch", 0, NoAnswer)

\* the backend (or the network) answers an HTTP request that is in flight
Respond ==
    \E c \in 1..Len(calls) :
      /\ calls[c].st = "inflight"
      /\ \E ans \in Answers(calls[c].ep) :
           Apply(Receive(World, c, ans), "answer", c, ans)

\* the page is loaded again (reload, or the navigation caused by assigning
\* window.location.href): the JavaScript state starts over, localStorage stays
Reload ==
    /\ storage' = storage
    /\ href' = href
    /\ user' = NoUser
    /\ loading' = TRUE
    /\ calls' = <<>>
    /\ ops' = [o \in OpNames |-> OpIdle(o)]
    /\ last' = [NoLast EXCEPT !.act = "reload"]
    /\ spent' = [calls |-> spent.calls + Len(calls),
                 ops |-> spent.ops + Cardinality(Invoked)]
    /\ page' = Mount(href, page.inputs)
    /\ graph' = NoGraph

Next == CheckAuth \/ Login \/ Register \/ Logout \/ Fetch \/ Respond \/ Reload

Spec == Init /\ [][Next]_vars

TypeOK ==
    /\ Len(calls) <= MaxCalls
    /\ \A c \in 1..Len(calls) : calls[c].sends \in 1..2 /\ calls[c].parent < c

\* ------------------------------------------------- the pages as the driver
\* what the user can type into the login form; a string whose length matters
\* is the sequence of its characters
Names == {<<>>, <<" ", " ">>, <<"a", " ">>, <<"a", "b">>}
Passwords == {<<>>, <<"p", "p", "p", "p", "p">>, <<"p", "p", "p", "p", "p", "p">>}
Forms == [isLogin : BOOLEAN, name : Names, email : {""} \cup Emails,
          password : Passwords, confirmPassword : Passwords]

\* the routes the buttons of a page push
Links(p) ==
    CASE p.route = "/dashboard" ->
           {"/api-access", "/projects"} \cup (IF p.data THEN {"/projects/p1"} ELSE {})
      [] p.route = "/projects" ->
           {"/dashboard"} \cup (IF p.data THEN {"/projects/p1"} ELSE {})
      [] p.route = "/projects/p1" -> {"/projects"}
      [] p.route \in {"/api-access", "/analytics"} -> {"/dashboard"}
      [] OTHER -> {}

PApply(w, act, c, ans, form) ==
    /\ w.page.loader # "stuck"
    /\ spent.calls + Len(w.calls) <= MaxPageCalls
    /\ Commit(w, act, c, ans, form)

\* the mount of the application: the provider's effect runs checkAuth, the
\* page renders with the outcome
Hydrate ==
    /\ ops["checkAuth"].pc = "init"
    /\ PApply(AfterTask(World,
                        IF storage.user # NoUser
                        THEN Await(World, "checkAuth", "me", "awaitMe")
                        ELSE Return([World EXCEPT !.loading = FALSE], "checkAuth", "")),
              "checkAuth", 0, NoAnswer, NoForm)

\* handleSubmit of the login page with form f typed in
Submit ==
    /\ page.route = LoginPage
    /\ ~page.busy
    /\ page.inputs < MaxInputs
    /\ \E f \in Forms :
         LET err == ValidateForm(f)
             o   == IF f.isLogin THEN "login" ELSE "register"
             w   == [World EXCEPT !.page.inputs = @ + 1]
         IN  IF err # ""
             THEN PApply([w EXCEPT !.page.error = err], "submit", 0, NoAnswer, f)
             ELSE /\ ops[o].pc = "idle"
                  /\ PApply(Await([w EXCEPT !.page.busy = TRUE,
                                                !.page.error = "",
                                                !.page.loader = o,
                                                !.ops[o] = [OpIdle(o) EXCEPT !.email = f.email]],
                                  o, o, IF f.isLogin THEN "awaitLogin" ELSE "awaitRegister"),
                            "submit", 0, NoAnswer, f)

\* handleLogout of the dashboard up to `await logout()`
ClickLogout ==
    /\ page.route = "/dashboard"
    /\ View(World) = "content"
    /\ ops["logout"].pc = "idle"
    /\ PApply(Await([World EXCEPT !.ops["logout"] = OpIdle("logout")],
                    "logout", "logout", "awaitLogout"),
              "logout", 0, NoAnswer, NoForm)

\* handleRotateKey of the API-access page up to `await fetch(...)`
ClickRotate ==
    /\ page.route = "/api-access"
    /\ page.raw.st = "none"
    /\ PApply([World EXCEPT !.page.busy = TRUE, !.page.error = "",
                            !.page.raw = [st |-> "sent", ep |-> "rotate",
                                          auth |-> Bearer(storage.access_token)]],
              "rotate", 0, NoAnswer, NoForm)

\* the user presses a button of the page that pushes a route
FollowLink ==
    /\ page.inputs < MaxInputs
    /\ View(World) \in {"content", "notfound"}
    /\ \E r \in Links(page) :
         PApply(RouterPush([World EXCEPT !.page.inputs = @ + 1], r),
                "link", 0, NoAnswer, NoForm)

\* a navigation started by router.push is committed: the page of the route
\* is mounted and its effect runs
Navigated ==
    /\ page.nav # ""
    /\ PApply(SessionEffect([World EXCEPT !.page = Mount(page.nav, page.inputs),
                                          !.href = page.nav]),
              "navigated", 0, NoAnswer, NoForm)

\* the backend (or the network) answers an axios request that is in flight
Answer ==
    \E c \in 1..Len(calls) :
      /\ calls[c].st = "inflight"
      /\ \E ans \in Answers(calls[c].ep) :
           PApply(AfterTask(World, Receive(World, c, ans)), "answer", c, ans, NoForm)

\* the backend (or the network) answers the fetch() of the page
FetchAnswer ==
    /\ page.raw.st = "sent"
    /\ \E s \in {200, 401, 500, 0} :
         PApply(RawDone(World, s), "fetched", 0, [NoAnswer EXCEPT !.status = s], NoForm)

\* the pages behind the login page, with a session that was cached earlier
NextPages ==
    \/ Hydrate \/ ClickLogout \/ ClickRotate \/ FollowLink
    \/ Navigated \/ Answer \/ FetchAnswer \/ Reload

SpecPages == Start(Routes \ {LoginPage}) /\ [][NextPages]_vars

\* the login page and what a submitted form leads to
NextForm == Hydrate \/ Submit \/ Navigated \/ Answer \/ Reload

SpecForm == Start({LoginPage}) /\ [][NextForm]_vars

\* ---------------------------------------- two data loads running together
LApply(w, act, c, ans) ==
    /\ Len(w.calls) <= MaxLoadCalls
    /\ Commit(w, act, c, ans, NoForm)

\* useEffect on mount: checkAuth up to its await (or to its end)
Boot ==
    /\ ops["checkAuth"].pc = "init"
    /\ LApply(IF storage.user # NoUser
              THEN Await(World, "checkAuth", "me", "awaitMe")
              ELSE Return([World EXCEPT !.loading = FALSE], "checkAuth", ""),
              "checkAuth", 0, NoAnswer)

\* a data load of a protected page starts; the load of the page the user
\* came from may still be in flight (nothing cancels it)
Load ==
    /\ ~loading /\ user # NoUser
    /\ LoadSlot(World) # "stuck"
    /\ LApply(Await(World, LoadSlot(World), "data", "awaitData"), "fetch", 0, NoAnswer)

\* the backend (or the network) answers an HTTP request that is in flight
Reply ==
    \E c \in 1..Len(calls) :
      /\ calls[c].st = "inflight"
      /\ \E ans \in Answers(calls[c].ep) :
           LApply(Receive(World, c, ans), "answer", c, ans)

NextLoads == Boot \/ Load \/ Reply

SpecLoads == Start({"/dashboard"}) /\ [][NextLoads]_vars

\* ------------------------------------------- the knowledge graph component
\* loadGraphData after `await response.json()`: the graph is built from the
\* search result
GraphLoaded ==
    /\ graph.loading
    /\ \E data \in SearchResults :
         graph' = [data |-> data,
                   nodes |-> GraphNodes(data),
                   links |-> GraphLinks(GraphNodes(data), 1),
                   loading |-> FALSE,
                   error |-> ""]
    /\ UNCHANGED <<storage, user, loading, href, calls, ops, last, spent, page>>

\* loadGraphData when the search fails: the catch sets the error
GraphFailed ==
    /\ graph.loading
    /\ graph' = [graph EXCEPT !.loading = FALSE, !.error = "Failed to load knowledge graph"]
    /\ UNCHANGED <<storage, user, loading, href, calls, ops, last, spent, page>>

\* the graph is loaded once per mount of the component
NextGraph == GraphLoaded \/ GraphFailed

\* the project page with a session cached, showing the graph of project p1
InitGraph ==
    /\ Start({"/projects/p1"})
    /\ storage.user # NoUser
    /\ storage.access_token # Null
    /\ storage.refresh_token # Null

SpecGraph == InitGraph /\ [][NextGraph]_vars

\* ------------------------------------------------------------------ claims
CallIds == 1..Len(calls)

\* call k was made by the response interceptor handling call c, or by the
\* interceptor handling a refresh call that was made for c
RECURSIVE IsUnder(_, _)
IsUnder(k, c) ==
    LET p == calls[k].parent
    IN  p # 0 /\ (p = c \/ IsUnder(p, c))

\* the answer to call c that arrived in the last step was a failure
LastAnswered(c) == last.act = "answer" /\ last.c = c

\* C1: a request that received 401 exactly once has caused exactly one HTTP
\* request to the refresh endpoint, and has been re-sent exactly once if that
\* refresh call succeeded.
C1_ExactlyOneRefresh ==
    \A c \in CallIds :
      calls[c].n401 = 1 =>
        LET under == {k \in CallIds : IsUnder(k, c)}
        IN  /\ Cardinality(under) = 1
            /\ \A k \in under :
                 /\ calls[k].sends = 1
                 /\ calls[k].st = "resolved" => calls[c].sends = 2

\* C2: a request whose retry flag is set and that receives 401 again is
\* rejected with that 401 error, without another refresh call and without
\* another send.
C2_NoSecondRetry ==
    \A c \in CallIds :
      (LastAnswered(c) /\ last.wasRetry /\ last.ans.status = 401) =>
        /\ calls[c].st = "rejected"
        /\ calls[c].res = last.ans
        /\ calls[c].sends = 2
        /\ last.sent \notin {c} \cup {k \in CallIds : calls[k].parent = c}
        /\ Cardinality({k \in CallIds : calls[k].parent = c}) = 1
        /\ (calls[c].owner \in {"fetch1", "fetch2"} =>
              /\ ops[calls[c].owner].pc = "threw"
              /\ ops[calls[c].owner].out = "Request failed with status code 401")

C2_Witness ==
    \E c \in CallIds :
      /\ LastAnswered(c) /\ last.wasRetry /\ last.ans.status = 401
      /\ calls[c].owner = "fetch1"

\* C3: when the refresh call made after a 401 is answered with a failure
\* (no response, or an error status, 401 included), the cached user and
\* both cached tokens are removed, the page is redirected to the login page
\* and the original call is rejected.  (login and register cache a user of
\* their own when the call they await is rejected; the entry they write in
\* the same task is not held against the claim.)
C3_RefreshFailureClears ==
    \A c \in CallIds :
      (LastAnswered(c) /\ calls[c].parent # 0 /\ last.ans.status # 200) =>
        /\ storage.user = NoUser \/ last.done \in {"login", "register"}
        /\ storage.access_token = Null
        /\ storage.refresh_token = Null
        /\ href = LoginPage
        /\ calls[calls[c].parent].st = "rejected"

\* C4: when the refresh call made after a 401 succeeds, the tokens it returns
\* are the cached ones, the original request is in flight a second time with
\* the returned access token as its bearer header, and a re-sent request
\* settles with the answer it gets.
C4_RefreshSuccessRetries ==
    \A c \in CallIds :
      /\ (LastAnswered(c) /\ calls[c].parent # 0 /\ last.ans.status = 200) =>
           LET p == calls[c].parent
           IN  /\ last.ans.access # "" =>
                     /\ storage.access_token = last.ans.access
                     /\ calls[p].auth = <<"Bearer", last.ans.access>>
               /\ last.ans.refresh # "" => storage.refresh_token = last.ans.refresh
               /\ calls[p].st = "inflight"
               /\ calls[p].sends = 2
               /\ last.sent = p
      /\ (LastAnswered(c) /\ last.wasRetry) =>
           /\ calls[c].res = last.ans
           /\ calls[c].st = IF last.ans.status = 200 THEN "resolved" ELSE "rejected"
           /\ (calls[c].owner \in {"fetch1", "fetch2"} =>
                 ops[calls[c].owner].pc =
                   IF last.ans.status = 200 THEN "returned" ELSE "threw")

C4_Witness ==
    \E c \in CallIds :
      /\ LastAnswered(c) /\ last.wasRetry /\ last.ans.status = 200
      /\ calls[c].owner = "fetch1"
      /\ \E k \in CallIds : calls[k].parent = c /\ calls[k].res.access = "a1"
      /\ storage.access_token = "a1"
      /\ calls[c].auth = <<"Bearer", "a1">>

\* C5: a request is sent with the cached access token as its bearer header
\* whenever an access token is cached when it is sent, with or without a
\* cached user entry.
C5_BearerWheneverTokenCached ==
    (last.sent # 0 /\ storage.access_token # Null) =>
        calls[last.sent].auth = <<"Bearer", storage.access_token>>

\* C6: when logout() finishes it has returned (it never throws), the session
\* user is null and the cached user and both cached tokens are absent,
\* whether the backend's logout call succeeded or failed.
C6_LogoutAlwaysAnonymous ==
    /\ ops["logout"].pc # "threw"
    /\ last.done = "logout" =>
         /\ ops["logout"].pc = "returned"
         /\ user = NoUser
         /\ storage.user = NoUser
         /\ storage.access_token = Null
         /\ storage.refresh_token = Null

C6_Witness ==
    /\ last.done = "logout"
    /\ calls[ops["logout"].c].st = "rejected"
    /\ calls[ops["logout"].c].res.status = 500

\* C7: when login() finishes after the backend accepted the login call, it
\* has returned without an error; the session user has the id, email, name
\* and creation time of the current-user answer if that call succeeded, and
\* is the submitted email with empty id and name if it failed.
C7_LoginAuthenticates ==
    (last.done = "login" /\ calls[ops["login"].c0].st = "resolved") =>
      LET me == calls[ops["login"].c]
      IN  /\ ops["login"].pc = "returned"
          /\ me.ep = "me"
          /\ user # NoUser
          /\ IF me.st = "resolved"
             THEN user = [id |-> me.res.user.id, email |-> me.res.user.email,
                          name |-> me.res.user.name, apiKey |-> Undef,
                          created_at |-> me.res.user.created_at]
             ELSE /\ me.st = "rejected"
                  /\ user = [id |-> "", email |-> ops["login"].email, name |-> "",
                             apiKey |-> Undef, created_at |-> Undef]

C7_Witness ==
    /\ last.done = "login"
    /\ calls[ops["login"].c0].st = "resolved"
    /\ calls[ops["login"].c].st = "rejected"
    /\ user.email = "e1"

\* C8: when login() finishes after the backend rejected the login call, it
\* has thrown the rejection's detail ('Login failed' when there is none), no
\* current-user call was made for it, and the step in which it throws leaves
\* the session user as it was.
C8_RejectedState ==
    (last.done = "login" /\ calls[ops["login"].c0].st = "rejected") =>
      LET rej == calls[ops["login"].c0].res
      IN  /\ ops["login"].pc = "threw"
          /\ ops["login"].out =
               IF rej.status # 0 /\ rej.detail # "" THEN rej.detail ELSE "Login failed"
          /\ \A k \in CallIds : ~(calls[k].owner = "login" /\ calls[k].ep = "me")

C8_RejectedStep ==
    (ops["login"].pc # "threw" /\ ops'["login"].pc = "threw") => user' = user

C8_LoginRejected == [] C8_RejectedState /\ [][C8_RejectedStep]_vars

C8_Witness ==
    /\ last.done = "login"
    /\ ops["login"].pc = "threw"
    /\ ops["login"].out = "d1"
    /\ calls[ops["login"].c0].res.status = 401

\* C9: when register() finishes after the backend accepted the registration,
\* it has returned the api_key of the registration answer, whether the
\* automatic login succeeded or failed.
C9_RegisterReturnsApiKey ==
    (last.done = "register" /\ calls[ops["register"].c0].st = "resolved") =>
      /\ ops["register"].pc = "returned"
      /\ ops["register"].out = calls[ops["register"].c0].res.user.api_key

C9_Witness ==
    /\ last.done = "register"
    /\ calls[ops["register"].c].ep = "login"
    /\ calls[ops["register"].c].st = "rejected"
    /\ ops["register"].out = "k1"

\* C10: when register() finishes after the backend accepted the registration
\* and the automatic login failed, in a session that was Anonymous (nothing
\* cached at start, no other function called), the session user is still
\* null and no user entry is cached.
C10_FailedAutoLoginStaysAnonymous ==
    ( /\ last.done = "register"
      /\ calls[ops["register"].c0].st = "resolved"
      /\ calls[ops["register"].c].ep = "login"
      /\ calls[ops["register"].c].st = "rejected"
      /\ ops["checkAuth"].c = 0
      /\ \A o \in OpNames \ {"checkAuth", "register"} : ops[o].pc = "idle" )
    => (user = NoUser /\ storage.user = NoUser)

\* C11: when register() finishes after the backend accepted the registration
\* and the automatic login, the session user is set, the access and refresh
\* tokens of the login answer are the cached ones, and the cached user entry
\* carries the api_key of the registration answer.
C11_RegisterEstablishesSession ==
    ( /\ last.done = "register"
      /\ calls[ops["register"].c0].st = "resolved"
      /\ calls[ops["register"].c].ep = "login"
      /\ calls[ops["register"].c].st = "resolved" )
    => LET reg == calls[ops["register"].c0].res
           lgn == calls[ops["register"].c].res
       IN  /\ user # NoUser
           /\ lgn.access # "" => storage.access_token = lgn.access
           /\ lgn.refresh # "" => storage.refresh_token = lgn.refresh
           /\ storage.user # NoUser
           /\ "apiKey" \in DOMAIN storage.user
           /\ storage.user.apiKey = reg.user.api_key
           /\ user.apiKey = reg.user.api_key

C11_Witness ==
    /\ last.done = "register"
    /\ calls[ops["register"].c].ep = "login"
    /\ calls[ops["register"].c].st = "resolved"
    /\ calls[ops["register"].c].res.access = "a1"
    /\ storage.access_token = "a1"
    /\ storage.refresh_token = "r1"
    /\ user.apiKey = "k1"

\* C12: when hydration finishes after a user entry was cached at start and
\* the current-user call failed (no other function having been called), the
\* session user is null and the cached user and both cached tokens are
\* absent.
C12_FailedHydrationClearsCache ==
    ( /\ last.done = "checkAuth"
      /\ ops["checkAuth"].c # 0
      /\ calls[ops["checkAuth"].c].st = "rejected"
      /\ Invoked = {} )
    => /\ user = NoUser
       /\ storage.user = NoUser
       /\ storage.access_token = Null
       /\ storage.refresh_token = Null

\* C13: when hydration finishes after a user entry was cached at start (of a
\* first load or of a reload) and the current-user call succeeded, the
\* session user and the cached user entry are the profile of the backend's
\* answer and loading is over; and while hydration runs alone and does not
\* fail, no step removes a cached token, and no step changes one unless the
\* current-user call was answered 401 and refreshed.
C13_HydratedState ==
    ( /\ last.done = "checkAuth"
      /\ ops["checkAuth"].c # 0
      /\ calls[ops["checkAuth"].c].st = "resolved" )
    => LET info == calls[ops["checkAuth"].c].res.user
       IN  /\ user = [id |-> info.id, email |-> info.email, name |-> info.name,
                      apiKey |-> Undef, created_at |-> info.created_at]
           /\ storage.user = [id |-> info.id, email |-> info.email, name |-> info.name,
                              created_at |-> info.created_at]
           /\ ~loading

C13_HydrationStep ==
    ( /\ ops["checkAuth"].pc = "awaitMe"
      /\ ops'["checkAuth"].pc \in {"awaitMe", "returned"}
      /\ Invoked = {} /\ Invoked' = {}
      /\ calls'[ops["checkAuth"].c].st # "rejected" )
    => /\ storage.access_token # Null => storage'.access_token # Null
       /\ storage.refresh_token # Null => storage'.refresh_token # Null
       /\ calls'[ops["checkAuth"].c].n401 = 0 =>
            /\ storage'.access_token = storage.access_token
            /\ storage'.refresh_token = storage.refresh_token

C13_HydrationSucceeds == [] C13_HydratedState /\ [][C13_HydrationStep]_vars

\* a hydration after a reload, with the tokens an earlier login cached
C13_Witness ==
    /\ last.done = "checkAuth"
    /\ ops["checkAuth"].c # 0
    /\ calls[ops["checkAuth"].c].st = "resolved"
    /\ spent.calls > 0
    /\ storage.access_token = "a1"
    /\ storage.refresh_token = "r1"
    /\ user.id = "u1"

\* C14: on the dashboard, the project list, the project detail and the
\* analytics page, protected content is rendered only when hydration has
\* finished and the session user is set; while hydration runs the page shows
\* its loading view and has no data request in flight; and when hydration
\* finishes without a session user the page is navigating to the login page,
\* renders no protected content and has sent no data request.
C14_GuardedPagesGate ==
    page.route \in Guarded =>
      /\ View(World) = "content" => (~loading /\ user # NoUser)
      /\ loading => /\ View(World) = "loading"
                    /\ page.loader = "none"
                    /\ page.raw.st = "none"
      /\ (last.done = "checkAuth" /\ user = NoUser) =>
           /\ page.nav = LoginPage
           /\ View(World) # "content"
           /\ last.sent = 0
           /\ page.raw.st = "none"

\* C15: the API-key management page shows a loading view while hydration
\* runs; once hydration finished without a session user it renders no
\* content and is navigating to the login page; and its key-rotation request
\* is in flight only for a session that has a user.
C15_ApiAccessGate ==
    page.route = "/api-access" =>
      /\ loading => View(World) = "loading"
      /\ (~loading /\ user = NoUser) =>
           (View(World) # "content" /\ page.nav = LoginPage)
      /\ page.raw.st = "sent" => (~loading /\ user # NoUser)

\* C16: when the login / registration form is submitted and fails the
\* client-side validation (in registration mode: name missing or shorter
\* than 2 characters after trimming, password and confirmation different; in
\* both modes: email missing, password missing or shorter than 6 characters),
\* no request is sent and the page holds an error message; a form that passes
\* sends the login (resp. registration) request; and a login or registration
\* request of the form is only ever sent by submitting a form that passes.
C16_ValidationGatesCalls ==
    LET f == last.form
        invalid ==
          \/ ~f.isLogin /\ Len(Trim(f.name)) < 2
          \/ ~f.isLogin /\ f.password # f.confirmPassword
          \/ f.email = ""
          \/ Len(f.password) < 6
    IN  /\ (last.act = "submit" /\ invalid) =>
             /\ last.sent = 0
             /\ page.error # ""
             /\ ~page.busy
        /\ (last.act = "submit" /\ ~invalid) =>
             /\ last.sent # 0
             /\ calls[last.sent].ep = IF f.isLogin THEN "login" ELSE "register"
             /\ page.error = ""
        /\ ( /\ last.sent # 0
             /\ calls[last.sent].sends = 1
             /\ calls[last.sent].parent = 0
             /\ \/ calls[last.sent].ep = "register"
                \/ calls[last.sent].ep = "login" /\ calls[last.sent].owner = "login" )
           => (last.act = "submit" /\ ~invalid)

\* a login form with a five-character password is refused without a request
C16_Witness ==
    /\ last.act = "submit"
    /\ last.form.isLogin
    /\ last.form.email = "e1"
    /\ Len(last.form.password) = 5
    /\ last.sent = 0
    /\ page.error = "Password must be at least 6 characters"

\* C17: whenever a backend call that is not the logout call fails while the
\* page that made it is mounted and awaiting it (a call of the API client
\* made for the page's data load, login or registration, or the page's own
\* fetch), the page holds an error message once the task that delivers the
\* failure is over.
C17_FailureStep ==
    /\ \A c \in 1..Len(calls) :
         ( /\ c <= Len(calls')
           /\ calls[c].parent = 0
           /\ calls[c].owner \in {"fetch1", "fetch2", "login", "register"}
           /\ page.loader = calls[c].owner
           /\ calls[c].st # "rejected"
           /\ calls'[c].st = "rejected" )
         => page'.error # ""
    /\ ( /\ page.raw.st = "sent"
         /\ last'.act = "fetched"
         /\ last'.ans.status # 200 )
       => page'.error # ""

C17_FailuresSurfaced == [][C17_FailureStep]_vars

\* C18: whenever a backend request of any page is answered 401 (and is not
\* already the retry of a refreshed request), the task that receives the
\* answer sends a request to the refresh endpoint.
C18_UnauthorizedAlwaysRefreshes ==
    ( /\ last.act \in {"answer", "fetched"}
      /\ last.ans.status = 401
      /\ ~last.wasRetry )
    => /\ last.sent # 0
       /\ calls[last.sent].ep = "refresh"

\* C19: when a request of the API client (the refresh request aside, whose
\* failure is the failure of the refresh path) is answered with a failure
\* that is not a 401 (another status, or no response), the task that
\* receives the answer sends nothing: the request is not sent again (it
\* went out once if it never got a 401) and no refresh request is made; the
\* request is rejected with that error, a data load throws it to the page;
\* and the cached user, the cached tokens and the session user stay as they
\* were, unless the function the error is passed to writes them itself
\* (checkAuth, logout, login after its profile fetch, register after its
\* automatic login).
C19_NonAuthFailureStep ==
    \A c \in 1..Len(calls) :
      ( /\ c <= Len(calls')
        /\ last'.act = "answer"
        /\ last'.c = c
        /\ last'.ans.status \notin {200, 401}
        /\ calls[c].ep # "refresh" )
      => /\ Len(calls') = Len(calls)
         /\ \A k \in 1..Len(calls) : calls'[k].sends = calls[k].sends
         /\ calls[c].n401 = 0 => calls'[c].sends = 1
         /\ calls'[c].st = "rejected"
         /\ calls'[c].res = last'.ans
         /\ calls[c].owner \in {"fetch1", "fetch2"} =>
              ops'[calls[c].owner].pc = "threw"
         /\ ( \/ calls[c].owner \in {"fetch1", "fetch2"}
              \/ calls[c].owner = "login" /\ ops["login"].pc = "awaitLogin"
              \/ calls[c].owner = "register" /\ ops["register"].pc = "awaitRegister" )
            => (storage' = storage /\ user' = user /\ href' = href)

C19_NonAuthFailurePassedOn == [][C19_NonAuthFailureStep]_vars

\* a data load answered 500 on its first send, with tokens cached
C19_Witness ==
    /\ last.act = "answer"
    /\ last.ans.status = 500
    /\ last.c # 0
    /\ calls[last.c].owner = "fetch1"
    /\ calls[last.c].n401 = 0
    /\ calls[last.c].sends = 1
    /\ calls[last.c].st = "rejected"
    /\ ops["fetch1"].pc = "threw"
    /\ storage.access_token = "a0"
    /\ user # NoUser

\* C20: the task that starts the hydration when the application is mounted
\* calls the current-user endpoint exactly when an access token is cached:
\* with an access token in storage a GET /auth/me is sent, and the session
\* becomes Anonymous with no call sent only when no access token is cached.
C20_HydrationCallsWhenTokenCached ==
    last.act = "checkAuth" =>
      /\ storage.access_token # Null =>
           /\ last.sent # 0
           /\ calls[last.sent].ep = "me"
           /\ loading
      /\ last.sent = 0 =>
           /\ storage.access_token = Null
           /\ user = NoUser
           /\ ~loading

\* C21: the refresh request sent after a 401 carries the refresh token that
\* is cached at that moment, in its body or as its bearer header.
C21_RefreshPresentsRefreshToken ==
    ( /\ last.act = "answer"
      /\ last.ans.status = 401
      /\ last.sent # 0
      /\ calls[last.sent].ep = "refresh"
      /\ storage.refresh_token # Null )
    => \/ calls[last.sent].data = storage.refresh_token
       \/ calls[last.sent].auth = Bearer(storage.refresh_token)

\* C22: every top-level request that received a 401 has a refresh call of
\* its own, made in the task that received the 401 even when another
\* request's refresh is in flight: the refresh calls made for top-level
\* requests are as many as the requests that received a first 401, and a
\* request that waits for a refresh waits for one made under it.
C22_IndependentRefreshes ==
    /\ \A c \in CallIds :
         calls[c].parent = 0 =>
           Cardinality({k \in CallIds : calls[k].parent = c})
             = IF calls[c].n401 >= 1 THEN 1 ELSE 0
    /\ Cardinality({k \in CallIds : calls[k].parent # 0 /\ calls[calls[k].parent].parent = 0})
         = Cardinality({c \in CallIds : calls[c].parent = 0 /\ calls[c].n401 >= 1})
    /\ \A c \in CallIds :
         calls[c].st = "refreshing" =>
           \E k \in CallIds : IsUnder(k, c) /\ calls[k].st = "inflight"
    /\ (last.act = "answer" /\ last.ans.status = 401 /\ ~last.wasRetry) =>
         /\ last.sent = Len(calls)
         /\ calls[last.sent].ep = "refresh"
         /\ calls[last.sent].parent = last.c

\* two data loads wait, each for its own refresh call, both in flight
C22_Witness ==
    \E c1, c2, k1, k2 \in CallIds :
      /\ c1 # c2 /\ k1 # k2
      /\ calls[c1].ep = "data" /\ calls[c2].ep = "data"
      /\ calls[c1].st = "refreshing" /\ calls[c2].st = "refreshing"
      /\ calls[k1].parent = c1 /\ calls[k2].parent = c2
      /\ calls[k1].st = "inflight" /\ calls[k2].st = "inflight"
      /\ last.act = "answer" /\ last.sent = k2

\* the HTTP requests sent for the calls k, k+1, ... that were made under call c
RECURSIVE SendsUnder(_, _)
SendsUnder(c, k) ==
    IF k > Len(calls) THEN 0
    ELSE (IF IsUnder(k, c) THEN calls[k].sends ELSE 0) + SendsUnder(c, k + 1)

\* the HTTP requests a call has caused: its own sends and those of the
\* refresh calls made under it
Requests(c) == calls[c].sends + SendsUnder(c, 1)

\* C23: a call made through the API client settles after finitely many HTTP
\* requests whatever the backend answers: it never causes more than three
\* requests (itself, one refresh, one retry), and once every request made
\* for it has been answered it has resolved or been rejected.
C23_SettlesAfterBoundedRequests ==
    \A c \in CallIds :
      calls[c].parent = 0 =>
        /\ Requests(c) <= 3
        /\ ( /\ calls[c].st # "inflight"
             /\ \A k \in CallIds : IsUnder(k, c) => calls[k].st # "inflight" )
           => calls[c].st \in {"resolved", "rejected"}

\* C24: whenever the session has a user and no login, register, logout or
\* hydration is running and no refresh call is in flight, an access token
\* is cached.
C24_AuthenticatedHasToken ==
    ( /\ user # NoUser
      /\ ops["checkAuth"].pc \in Final
      /\ \A o \in {"login", "register", "logout"} : ops[o].pc \in Final \cup {"idle"}
      /\ \A c \in CallIds : calls[c].ep = "refresh" => calls[c].st # "inflight" )
    => storage.access_token # Null

\* C25: once logout() has returned, and as long as no login or register has
\* been invoked after it, the session has no user and localStorage holds no
\* user entry and no token, whatever answers arrive for requests that were
\* sent before the logout.
C25_LogoutIsFinal ==
    ( /\ ops["logout"].pc = "returned"
      /\ \A o \in {"login", "register"} :
           ops[o].pc = "idle" \/ ops[o].c0 < ops["logout"].c0 )
    => /\ user = NoUser
       /\ storage = ClearStorage(storage)

\* C26: when the refresh calls of two data loads were sent with the same
\* cached credentials (neither was answered before the other was sent) and
\* the backend accepted one, answering new tokens, and rejected the other,
\* the tokens of the accepted refresh are cached and no redirect to the
\* login page has been issued, in whichever order the answers arrived.
C26_OneRefreshWins ==
    \A k1, k2 \in CallIds :
      ( /\ calls[k1].ep = "refresh" /\ calls[k2].ep = "refresh"
        /\ calls[k1].parent # calls[k2].parent
        /\ calls[calls[k1].parent].ep = "data"
        /\ calls[calls[k2].parent].ep = "data"
        /\ calls[k1].auth = calls[k2].auth
        /\ calls[k1].auth # NoHeader
        /\ calls[k1].st = "resolved"
        /\ calls[k1].res.access # ""
        /\ calls[k1].res.refresh # ""
        /\ calls[k1].auth # Bearer(calls[k1].res.access)
        /\ calls[k2].st = "rejected" )
      => /\ storage.access_token = calls[k1].res.access
         /\ storage.refresh_token = calls[k1].res.refresh
         /\ href # LoginPage

\* C27: the task that receives the backend's rejection of login()'s
\* POST /auth/login makes login() throw and changes nothing else: no refresh
\* call is made, the request is not sent again, and the session's user, the
\* three localStorage entries and the location are what they were.
C27_RejectedLoginStep ==
    \A c \in 1..Len(calls) :
      ( /\ c <= Len(calls')
        /\ last'.act = "answer"
        /\ last'.c = c
        /\ last'.ans.status \notin {200, 0}
        /\ calls[c].ep = "login"
        /\ calls[c].owner = "login" )
      => /\ Len(calls') = Len(calls)
         /\ calls'[c].sends = calls[c].sends
         /\ ops'["login"].pc = "threw"
         /\ storage' = storage
         /\ user' = user
         /\ href' = href

C27_RejectedLoginChangesNothing == [][C27_RejectedLoginStep]_vars

\* C28: the loading flag of the session store is true exactly until
\* hydration has finished: true from the start of the page load while
\* checkAuth has not returned, false in every state after checkAuth
\* returned (with no cached user, after a successful and after a failed
\* validation), whatever login, register and logout do afterwards.
C28_LoadingUntilHydrated ==
    /\ loading <=> ops["checkAuth"].pc \notin Final
    /\ last.done = "checkAuth" => ~loading
    /\ (\E o \in {"login", "register", "logout"} : ops[o].pc \in Final)
         => (loading <=> ops["checkAuth"].pc = "awaitMe")

\* hydration failed, then a login ran to its end: loading is still false
C28_Witness ==
    /\ ops["checkAuth"].pc = "returned"
    /\ ops["checkAuth"].c # 0
    /\ calls[ops["checkAuth"].c].st = "rejected"
    /\ last.done = "login"
    /\ ops["login"].pc = "returned"
    /\ ~loading

\* C29: once the hydration of a page load has finished, the API key that a
\* register of an earlier page load attached to the profile is gone: neither
\* the session's user nor the cached user entry holds an API key, unless
\* register ran again in this page load.
C29_ApiKeyShownOnce ==
    ( /\ ops["checkAuth"].pc \in Final
      /\ ops["register"].pc \in {"idle", "awaitRegister", "threw"} )
    => /\ user # NoUser => user.apiKey = Undef
       /\ storage.user # NoUser => "apiKey" \notin DOMAIN storage.user

\* the page was loaded again with a profile cached that held the API key,
\* and the validation of the session succeeded
C29_Witness ==
    /\ last.done = "checkAuth"
    /\ last.hadKey
    /\ ops["checkAuth"].c # 0
    /\ calls[ops["checkAuth"].c].st = "resolved"
    /\ user # NoUser
    /\ storage.user # NoUser
    /\ spent.ops > 0

\* the ids listed in the tag list of an item of the search result
TagsOf(item) ==
    IF "tags" \in DOMAIN item THEN {item.tags[i] : i \in 1..Len(item.tags)} ELSE {}

\* C30: the graph built from a search result has one node per returned
\* chunk, in order and with the chunk's id; there is a link from s to t
\* exactly when a returned chunk with id s lists t in its tags and t is the
\* id of a returned chunk; and both endpoints of every link are ids of nodes.
C30_GraphMatchesTags ==
    (~graph.loading /\ graph.error = "") =>
      LET d == graph.data
          n == graph.nodes
          l == graph.links
          ids == {d[i].id : i \in 1..Len(d)}
          nodeIds == {n[i].id : i \in 1..Len(n)}
      IN  /\ Len(n) = Len(d)
          /\ \A i \in 1..Len(d) : n[i].id = d[i].id
          /\ \A s \in ChunkIds, t \in TagIds :
               (\E j \in 1..Len(l) : l[j] = [source |-> s, target |-> t])
                 <=> (t \in ids /\ \E i \in 1..Len(d) : d[i].id = s /\ t \in TagsOf(d[i]))
          /\ \A j \in 1..Len(l) : l[j].source \in nodeIds /\ l[j].target \in nodeIds

\* two chunks were returned; the first lists a chunk that was not returned
\* and the second chunk: only the link to the second chunk is in the graph
C30_Witness ==
    /\ ~graph.loading
    /\ graph.data = <<[id |-> "c1", tags |-> <<"x", "c2">>], [id |-> "c2"]>>
    /\ graph.links = <<[source |-> "c1", target |-> "c2"]>>
    /\ Len(graph.nodes) = 2
====
